---- MODULE Spec2Model ----
(***************************************************************************)
(* Server side of the WebSocket opening handshake: server::Request         *)
(* (src/src/server/request.rs).  A Request is read from a connection's     *)
(* reader and writer, may be inspected, validated and modified through its *)
(* public fields, and is consumed by accept(), fail() or into_inner().     *)
(***************************************************************************)
EXTENDS Integers, Sequences, FiniteSets, TLC

VARIABLES
    callerHolds,  \* connections whose reader and writer are in the caller's hands
    requests,     \* the Request values that exist
    responses,    \* the Response values that exist
    pc,           \* per connection: position of the flow that handles it
    vres,         \* per connection: the result accept() matched on (request.rs:141)
    rlog,         \* per connection: what the last read() found on the wire and read of it
    last,         \* the call that returned last: operation, connection, what
                  \* Response::new built in it (if called), returned value
    hist,         \* per connection, kept by the specifications that track it: how
                  \* often validate() ran on its request, what the caller's last
                  \* validate() returned, whether the request was modified since
    hdr           \* an Origin header on its way: raw occurrences -> Origin -> bytes

vars == <<callerHolds, requests, responses, pc, vres, rlog, last, hist, hdr>>

\* The connections (one reader/writer pair each) handled by the surrounding server.
Conns == {"c1", "c2"}

-----------------------------------------------------------------------------
(* Values of the types the request is made of *)

\* Option<T>: None is the empty sequence, Some(x) the sequence holding x
None == <<>>
Some(x) == <<x>>

\* hyper::version::HttpVersion
HttpVersions == {"Http09", "Http10", "Http11", "Http20"}

\* hyper::method::Method, as far as read() distinguishes it
Methods == {"Get", "Post"}

\* hyper::uri::RequestUri
RequestUris == {"/chat"}

\* header::WebSocketVersion
WebSocketVersions == {"WebSocket13", "Unknown8"}

\* header::WebSocketKey
WebSocketKeys == {"dGhlIHNhbXBsZSBub25jZQ=="}

\* How many validate() calls of the caller per request a tracking
\* specification explores
MaxValidate == 2

\* Bounds of the raw Origin headers: bytes of all occurrences together, and
\* occurrences
MaxBytes == 3
MaxOccurrences == 2

\* Strings whose letter case matters, as sequences of ASCII codes
StrUpgrade == <<85, 112, 103, 114, 97, 100, 101>>
StrUpgradeLower == <<117, 112, 103, 114, 97, 100, 101>>
StrUpgradeUpper == <<85, 80, 71, 82, 65, 68, 69>>

\* hyper::header::Protocol: WebSocket | ProtocolExt(String)
ProtocolWebSocket == [tag |-> "WebSocket", name |-> <<>>]
ProtocolExt(s) == [tag |-> "ProtocolExt", name |-> s]

\* hyper::header::ConnectionOption: KeepAlive | Close | ConnectionHeader(UniCase<String>)
KeepAlive == [tag |-> "KeepAlive", name |-> <<>>]
ConnectionHeader(s) == [tag |-> "ConnectionHeader", name |-> s]

\* The values an Upgrade header can carry: Upgrade(Vec<Protocol>)
UpgradeValues ==
    { <<ProtocolWebSocket>>,
      <<ProtocolExt(<<104, 50, 99>>)>> }

\* The values a Connection header can carry: Connection(Vec<ConnectionOption>)
ConnectionValues ==
    { <<ConnectionHeader(StrUpgrade)>>,
      <<ConnectionHeader(StrUpgradeLower)>>,
      <<KeepAlive>>,
      <<KeepAlive, ConnectionHeader(StrUpgradeUpper)>> }

\* hyper::header::Headers, restricted to the headers the request logic looks at:
\* each is absent (None) or holds its typed value.  HeaderNames are the headers
\* validate() looks at, OptionalNames the ones that have an accessor only.
HeaderNames == {"wsversion", "key", "upgrade", "connection"}

OptionalNames == {"origin", "protocol", "extensions"}

\* header::Origin (the wrapped String as its bytes), header::WebSocketProtocol,
\* header::WebSocketExtensions: none sent, Origin alone, all three
OptionalHeaders ==
    { [origin |-> None, protocol |-> None, extensions |-> None],
      [origin |-> Some(<<104, 116, 116, 112, 58, 47, 47, 97>>),
       protocol |-> None, extensions |-> None],
      [origin |-> Some(<<104, 116, 116, 112, 58, 47, 47, 97>>),
       protocol |-> Some(<<"chat">>), extensions |-> Some(<<"deflate">>)] }

Headers ==
    { [ wsversion  |-> v,
        key        |-> k,
        upgrade    |-> u,
        connection |-> o,
        origin     |-> x.origin,
        protocol   |-> x.protocol,
        extensions |-> x.extensions ] :
      v \in {Some(w) : w \in WebSocketVersions} \cup {None},
      k \in {Some(w) : w \in WebSocketKeys} \cup {None},
      u \in {Some(w) : w \in UpgradeValues} \cup {None},
      o \in {Some(w) : w \in ConnectionValues} \cup {None},
      x \in OptionalHeaders }

\* A header collection a conforming client sends
ValidHeaders ==
    [ wsversion  |-> Some("WebSocket13"),
      key        |-> Some("dGhlIHNhbXBsZSBub25jZQ=="),
      upgrade    |-> Some(<<ProtocolWebSocket>>),
      connection |-> Some(<<ConnectionHeader(StrUpgrade)>>),
      origin     |-> None,
      protocol   |-> None,
      extensions |-> None ]

\* The header collections used when two connections are handled side by side:
\* the conforming one, every one that differs from it in a single header that
\* validate() looks at, the conforming one with all optional headers, and the
\* empty one.
HandshakeHeaders ==
    { h \in Headers :
        \/ /\ Cardinality({n \in HeaderNames : h[n] # ValidHeaders[n]}) <= 1
           /\ \A n \in OptionalNames : h[n] = None
        \/ /\ \A n \in HeaderNames : h[n] = ValidHeaders[n]
           /\ \A n \in OptionalNames : h[n] # None
        \/ \A n \in HeaderNames \cup OptionalNames : h[n] = None }

\* Headers::new()
HeadersNew == {}

\* WebSocketResult values
Ok == [kind |-> "Ok", msg |-> ""]
RequestError(m) == [kind |-> "RequestError", msg |-> m]
HttpError == [kind |-> "HttpError", msg |-> ""]
NotRun == [kind |-> "NotRun", msg |-> ""]

-----------------------------------------------------------------------------
(* What read() can find on the wire *)

\* Outcomes of read_request_line: an error, or (method, uri, version)
RequestLines ==
    [ ok : {TRUE}, method : Methods, uri : RequestUris, version : HttpVersions ]
    \cup { [ok |-> FALSE, method |-> "", uri |-> "", version |-> ""] }

\* Outcomes of Headers::from_raw: an error, or one of the header collections hs
HeaderBlocks(hs) ==
    [ ok : {TRUE}, headers : {Some(h) : h \in hs} ]
    \cup { [ok |-> FALSE, headers |-> None] }

\* No validate() has run on the connection's request
NoHist == [runs |-> 0, seen |-> NotRun, stale |-> FALSE]

\* No Origin header is being handled
NoHdr == [stage |-> "idle", via |-> "", raw |-> <<>>, origin |-> None, out |-> <<>>]

\* Nothing has been read from the connection yet
NoLog == [line |-> FALSE, method |-> "", block |-> FALSE, headersRead |-> FALSE]

-----------------------------------------------------------------------------
(* Pure functions of request.rs *)

\* u8::to_ascii_lowercase, the folding UniCase compares under
AsciiLower(ch) == IF ch >= 65 /\ ch <= 90 THEN ch + 32 ELSE ch

\* UniCase compared byte for byte
UniCaseEq_exact(a, b) == a = b

\* PartialEq of UniCase<String>
UniCaseEq(a, b) ==
    /\ Len(a) = Len(b)
    /\ \A i \in 1..Len(a) : AsciiLower(a[i]) = AsciiLower(b[i])

\* PartialEq of ConnectionOption
ConnectionOptionEq(a, b) ==
    /\ a.tag = b.tag
    /\ a.tag = "ConnectionHeader" => UniCaseEq(a.name, b.name)

\* connection.contains(&option)
ConnectionContains(connection, option) ==
    \E i \in 1..Len(connection) : ConnectionOptionEq(connection[i], option)

\* upgrade.contains(&protocol)
UpgradeContains(upgrade, protocol) ==
    \E i \in 1..Len(upgrade) : upgrade[i] = protocol

\* Request::key
key(r) == r.headers.key

\* Request::version
version(r) == r.headers.wsversion

\* Request::protocol
protocol(r) == r.headers.protocol

\* Request::extensions
extensions(r) == r.headers.extensions

\* Request::origin
origin(r) == r.headers.origin

\* validate() without the HTTP/0.9 comparison
validate_no_http09(r) ==
    IF r.version = "Http10"
    THEN RequestError("Unsupported request HTTP version")
    ELSE IF version(r) # Some("WebSocket13")
    THEN RequestError("Unsupported WebSocket version")
    ELSE IF key(r) = None
    THEN RequestError("Missing Sec-WebSocket-Key header")
    ELSE IF r.headers.upgrade = None
    THEN RequestError("Missing Upgrade WebSocket header")
    ELSE IF ~UpgradeContains(r.headers.upgrade[1], ProtocolWebSocket)
    THEN RequestError("Invalid Upgrade WebSocket header")
    ELSE IF r.headers.connection = None
    THEN RequestError("Missing Connection WebSocket header")
    ELSE IF ~ConnectionContains(r.headers.connection[1], ConnectionHeader(StrUpgrade))
    THEN RequestError("Invalid Connection WebSocket header")
    ELSE Ok

\* validate() with the key check moved in front of the WebSocket version check
validate_key_first(r) ==
    IF r.version = "Http09" \/ r.version = "Http10"
    THEN RequestError("Unsupported request HTTP version")
    ELSE IF key(r) = None
    THEN RequestError("Missing Sec-WebSocket-Key header")
    ELSE IF version(r) # Some("WebSocket13")
    THEN RequestError("Unsupported WebSocket version")
    ELSE IF r.headers.upgrade = None
    THEN RequestError("Missing Upgrade WebSocket header")
    ELSE IF ~UpgradeContains(r.headers.upgrade[1], ProtocolWebSocket)
    THEN RequestError("Invalid Upgrade WebSocket header")
    ELSE IF r.headers.connection = None
    THEN RequestError("Missing Connection WebSocket header")
    ELSE IF ~ConnectionContains(r.headers.connection[1], ConnectionHeader(StrUpgrade))
    THEN RequestError("Invalid Connection WebSocket header")
    ELSE Ok

\* validate() with one message for a missing and for an invalid Upgrade header
validate_one_upgrade_message(r) ==
    IF r.version = "Http09" \/ r.version = "Http10"
    THEN RequestError("Unsupported request HTTP version")
    ELSE IF version(r) # Some("WebSocket13")
    THEN RequestError("Unsupported WebSocket version")
    ELSE IF key(r) = None
    THEN RequestError("Missing Sec-WebSocket-Key header")
    ELSE IF r.headers.upgrade = None
    THEN RequestError("Invalid Upgrade WebSocket header")
    ELSE IF ~UpgradeContains(r.headers.upgrade[1], ProtocolWebSocket)
    THEN RequestError("Invalid Upgrade WebSocket header")
    ELSE IF r.headers.connection = None
    THEN RequestError("Missing Connection WebSocket header")
    ELSE IF ~ConnectionContains(r.headers.connection[1], ConnectionHeader(StrUpgrade))
    THEN RequestError("Invalid Connection WebSocket header")
    ELSE Ok

\* Request::validate
validate(r) ==
    IF r.version = "Http09" \/ r.version = "Http10"
    THEN RequestError("Unsupported request HTTP version")
    ELSE IF version(r) # Some("WebSocket13")
    THEN RequestError("Unsupported WebSocket version")
    ELSE IF key(r) = None
    THEN RequestError("Missing Sec-WebSocket-Key header")
    ELSE IF r.headers.upgrade = None
    THEN RequestError("Missing Upgrade WebSocket header")
    ELSE IF ~UpgradeContains(r.headers.upgrade[1], ProtocolWebSocket)
    THEN RequestError("Invalid Upgrade WebSocket header")
    ELSE IF r.headers.connection = None
    THEN RequestError("Missing Connection WebSocket header")
    ELSE IF ~ConnectionContains(r.headers.connection[1], ConnectionHeader(StrUpgrade))
    THEN RequestError("Invalid Connection WebSocket header")
    ELSE Ok

\* read() that parses the header block before it looks at the method
read_headers_first(c, line, block) ==
    IF ~line.ok
    THEN [ret |-> HttpError, request |-> None, headersRead |-> FALSE]
    ELSE IF ~block.ok
    THEN [ret |-> HttpError, request |-> None, headersRead |-> TRUE]
    ELSE IF line.method # "Get"
    THEN [ret |-> RequestError("Request method must be GET"),
          request |-> None, headersRead |-> TRUE]
    ELSE [ret |-> Ok,
          request |-> Some([conn |-> c, url |-> line.uri, version |-> line.version,
                            headers |-> block.headers[1]]),
          headersRead |-> TRUE]

\* read() that goes on with no headers when the header block cannot be read
read_swallows_header_error(c, line, block) ==
    IF ~line.ok
    THEN [ret |-> HttpError, request |-> None, headersRead |-> FALSE]
    ELSE IF line.method # "Get"
    THEN [ret |-> RequestError("Request method must be GET"),
          request |-> None, headersRead |-> FALSE]
    ELSE [ret |-> Ok,
          request |-> Some([conn |-> c, url |-> line.uri, version |-> line.version,
                            headers |-> IF block.ok THEN block.headers[1]
                                        ELSE [n \in HeaderNames \cup OptionalNames
                                                 |-> None]]),
          headersRead |-> TRUE]

\* Request::read on connection c, given what the wire delivers.  The result
\* says what was returned, the Request built (if any) and whether
\* Headers::from_raw was called.
read(c, line, block) ==
    IF ~line.ok
    THEN [ret |-> HttpError, request |-> None, headersRead |-> FALSE]
    ELSE IF line.method # "Get"
    THEN [ret |-> RequestError("Request method must be GET"),
          request |-> None, headersRead |-> FALSE]
    ELSE IF ~block.ok
    THEN [ret |-> HttpError, request |-> None, headersRead |-> TRUE]
    ELSE [ret |-> Ok,
          request |-> Some([conn |-> c, url |-> line.uri, version |-> line.version,
                            headers |-> block.headers[1]]),
          headersRead |-> TRUE]

\* The header names present in a request
PresentHeaders(r) == {n \in HeaderNames : r.headers[n] # None}

\* The outbound header collections Response::new may set up for a request
ResponseHeaders(r) == SUBSET PresentHeaders(r)

\* Response::new: bound to the request's connection, status not yet decided
ResponseNew(r, h) == [conn |-> r.conn, status |-> "Pending", headers |-> h]

\* fail() that sets the status and keeps the constructor's headers
fail_keeps_headers(r, h) ==
    LET response == ResponseNew(r, h)
    IN  [response EXCEPT !.status = "BadRequest"]

\* Request::fail
fail(r, h) ==
    LET response == ResponseNew(r, h)
    IN  [response EXCEPT !.status = "BadRequest", !.headers = HeadersNew]

\* accept() that answers an invalid request itself, with the error in a header
accept_reports_error(r, v, h) ==
    IF v = Ok THEN ResponseNew(r, h)
    ELSE [ResponseNew(r, h) EXCEPT !.status = "BadRequest", !.headers = {v.msg}]

\* accept() with the arms of the match exchanged
accept_inverted(r, v, h) == IF v = Ok THEN fail(r, h) ELSE ResponseNew(r, h)

\* Request::accept, after validate() has returned v
accept(r, v, h) == IF v = Ok THEN ResponseNew(r, h) ELSE fail(r, h)

\* `self` taken by reference: the Request value stays
Consume_by_reference(r) == requests

\* Moving `self` out of the caller's hands: the Request value is gone
Consume(r) == requests \ {r}

\* The Request that owns connection c (there is one whenever it is used)
RequestOf(c) == CHOOSE r \in requests : r.conn = c

HasRequest(c) == \E r \in requests : r.conn = c

\* The record of a call that has returned
Call(op, c, arg, result) == [op |-> op, conn |-> c, arg |-> arg, result |-> result]

-----------------------------------------------------------------------------
(* State machine *)

Init ==
    /\ callerHolds = Conns
    /\ requests = {}
    /\ responses = {}
    /\ pc = [c \in Conns |-> "Idle"]
    /\ vres = [c \in Conns |-> NotRun]
    /\ rlog = [c \in Conns |-> NoLog]
    /\ last = Call("", "", None, None)
    /\ hist = [c \in Conns |-> NoHist]
    /\ hdr = NoHdr

\* read() that hands the connection back to the caller when it fails
Read_hands_back(c, hs) ==
    /\ c \in callerHolds
    /\ \E line \in RequestLines, block \in HeaderBlocks(hs) :
         LET res == read(c, line, block)
         IN  /\ callerHolds' = IF res.ret = Ok THEN callerHolds \ {c} ELSE callerHolds
             /\ requests' = IF res.ret = Ok THEN requests \cup {res.request[1]}
                            ELSE requests
             /\ pc' = [pc EXCEPT ![c] = IF res.ret = Ok THEN "Pending" ELSE "Failed"]
             /\ vres' = [vres EXCEPT ![c] = NotRun]
             /\ rlog' = [rlog EXCEPT ![c] =
                            [line |-> line.ok, method |-> line.method,
                             block |-> block.ok, headersRead |-> res.headersRead]]
             /\ last' = Call("read", c, None, res.ret)
    /\ hist' = [hist EXCEPT ![c] = NoHist]
    /\ UNCHANGED <<responses, hdr>>

\* Request::read(reader, writer): the caller hands over the connection; the
\* header block on the wire is malformed or holds one of hs
Read(c, hs) ==
    /\ c \in callerHolds
    /\ \E line \in RequestLines, block \in HeaderBlocks(hs) :
         LET res == read(c, line, block)
         IN  /\ callerHolds' = callerHolds \ {c}
             /\ requests' = IF res.ret = Ok THEN requests \cup {res.request[1]}
                            ELSE requests
             /\ pc' = [pc EXCEPT ![c] = IF res.ret = Ok THEN "Pending" ELSE "Failed"]
             /\ vres' = [vres EXCEPT ![c] = NotRun]
             /\ rlog' = [rlog EXCEPT ![c] =
                            [line |-> line.ok, method |-> line.method,
                             block |-> block.ok, headersRead |-> res.headersRead]]
             /\ last' = Call("read", c, None, res.ret)
    /\ hist' = [hist EXCEPT ![c] = NoHist]
    /\ UNCHANGED <<responses, hdr>>

\* validate() that takes the key out of the header collection while checking it
Validate_takes_key(c, track) ==
    /\ pc[c] = "Pending"
    /\ HasRequest(c)
    /\ track => hist[c].runs < MaxValidate
    /\ last' = Call("validate", c, None, validate(RequestOf(c)))
    /\ requests' = (requests \ {RequestOf(c)})
                      \cup {[RequestOf(c) EXCEPT !.headers.key = None]}
    /\ hist' = IF track
               THEN [hist EXCEPT ![c] = [runs |-> @.runs + 1,
                                         seen |-> validate(RequestOf(c)),
                                         stale |-> FALSE]]
               ELSE hist
    /\ UNCHANGED <<callerHolds, responses, pc, vres, rlog, hdr>>

\* request.validate() called by the caller.  A specification that tracks the
\* validations (track) counts this one and explores MaxValidate of them per
\* request.
Validate(c, track) ==
    /\ pc[c] = "Pending"
    /\ HasRequest(c)
    /\ track => hist[c].runs < MaxValidate
    /\ last' = Call("validate", c, None, validate(RequestOf(c)))
    /\ hist' = IF track
               THEN [hist EXCEPT ![c] = [runs |-> @.runs + 1,
                                         seen |-> validate(RequestOf(c)),
                                         stale |-> FALSE]]
               ELSE hist
    /\ UNCHANGED <<callerHolds, requests, responses, pc, vres, rlog, hdr>>

\* One of the typed accessors: key(), version(), protocol(), extensions(), origin()
Accessors == {"key", "version", "protocol", "extensions", "origin"}

Lookup(r, a) ==
    CASE a = "key" -> key(r)
      [] a = "version" -> version(r)
      [] a = "protocol" -> protocol(r)
      [] a = "extensions" -> extensions(r)
      [] a = "origin" -> origin(r)

\* request.key(), request.version(), ... called by the caller
Access(c) ==
    /\ pc[c] = "Pending"
    /\ HasRequest(c)
    /\ \E a \in Accessors : last' = Call(a, c, None, Lookup(RequestOf(c), a))
    /\ UNCHANGED <<callerHolds, requests, responses, pc, vres, rlog, hist, hdr>>

\* request.version = v: the field is public
SetVersion(c) ==
    /\ pc[c] = "Pending"
    /\ HasRequest(c)
    /\ \E v \in HttpVersions :
         LET r == RequestOf(c)
         IN  requests' = (requests \ {r}) \cup {[r EXCEPT !.version = v]}
    /\ last' = Call("set_version", c, None, None)
    /\ hist' = [hist EXCEPT ![c].stale = (hist[c].seen # NotRun)]
    /\ UNCHANGED <<callerHolds, responses, pc, vres, rlog, hdr>>

\* request.headers = h, h one of hs (set / remove on the public header collection)
SetHeaders(c, hs) ==
    /\ pc[c] = "Pending"
    /\ HasRequest(c)
    /\ \E h \in hs :
         LET r == RequestOf(c)
         IN  requests' = (requests \ {r}) \cup {[r EXCEPT !.headers = h]}
    /\ last' = Call("set_headers", c, None, None)
    /\ hist' = [hist EXCEPT ![c].stale = (hist[c].seen # NotRun)]
    /\ UNCHANGED <<callerHolds, responses, pc, vres, rlog, hdr>>

\* request.into_inner(): the reader and writer go back to the caller
IntoInner(c) ==
    /\ pc[c] = "Pending"
    /\ HasRequest(c)
    /\ requests' = Consume(RequestOf(c))
    /\ callerHolds' = callerHolds \cup {c}
    /\ pc' = [pc EXCEPT ![c] = "Idle"]
    /\ last' = Call("into_inner", c, None, c)
    /\ UNCHANGED <<responses, vres, rlog, hist, hdr>>

\* accept() that goes on without calling validate()
AcceptValidate_skipped(c, track) ==
    /\ pc[c] = "Pending"
    /\ HasRequest(c)
    /\ pc' = [pc EXCEPT ![c] = "Validating"]
    /\ vres' = [vres EXCEPT ![c] = Ok]
    /\ last' = Call("accept.validate", c, None, None)
    /\ UNCHANGED <<callerHolds, requests, responses, rlog, hist, hdr>>

\* accept() that calls validate() a second time after the first
AcceptValidate_twice(c, track) ==
    /\ pc[c] = "Pending"
    /\ HasRequest(c)
    /\ pc' = [pc EXCEPT ![c] = "Validating"]
    /\ vres' = [vres EXCEPT ![c] = validate(RequestOf(c))]
    /\ last' = Call("accept.validate", c, None, None)
    /\ hist' = IF track THEN [hist EXCEPT ![c].runs = @ + 2] ELSE hist
    /\ UNCHANGED <<callerHolds, requests, responses, rlog, hdr>>

\* accept() that trusts the result of an earlier validate() when there is one
AcceptValidate_cached(c, track) ==
    /\ pc[c] = "Pending"
    /\ HasRequest(c)
    /\ pc' = [pc EXCEPT ![c] = "Validating"]
    /\ vres' = [vres EXCEPT ![c] = IF hist[c].seen # NotRun THEN hist[c].seen
                                   ELSE validate(RequestOf(c))]
    /\ last' = Call("accept.validate", c, None, None)
    /\ hist' = IF track THEN [hist EXCEPT ![c].runs = @ + 1] ELSE hist
    /\ UNCHANGED <<callerHolds, requests, responses, rlog, hdr>>

\* request.accept(), first half: self.validate() (request.rs:141)
AcceptValidate(c, track) ==
    /\ pc[c] = "Pending"
    /\ HasRequest(c)
    /\ pc' = [pc EXCEPT ![c] = "Validating"]
    /\ vres' = [vres EXCEPT ![c] = validate(RequestOf(c))]
    /\ last' = Call("accept.validate", c, None, None)
    /\ hist' = IF track THEN [hist EXCEPT ![c].runs = @ + 1] ELSE hist
    /\ UNCHANGED <<callerHolds, requests, responses, rlog, hdr>>

\* request.accept(), second half: the match on the result (request.rs:141-145)
AcceptDecide(c) ==
    /\ pc[c] = "Validating"
    /\ HasRequest(c)
    /\ LET r == RequestOf(c)
       IN  \E h \in ResponseHeaders(r) :
             LET response == accept(r, vres[c], h)
             IN  /\ responses' = responses \cup {response}
                 /\ requests' = Consume(r)
                 /\ pc' = [pc EXCEPT ![c] =
                              IF vres[c] = Ok THEN "Accepted" ELSE "Rejected"]
                 /\ last' = Call("accept", c, ResponseNew(r, h), response)
    /\ UNCHANGED <<callerHolds, vres, rlog, hist, hdr>>

\* fail(&self): the response is built and the request is left as it was
Fail_by_reference(c) ==
    /\ pc[c] = "Pending"
    /\ HasRequest(c)
    /\ LET r == RequestOf(c)
       IN  \E h \in ResponseHeaders(r) :
             LET response == fail(r, h)
             IN  /\ responses' = responses \cup {response}
                 /\ last' = Call("fail", c, ResponseNew(r, h), response)
    /\ UNCHANGED <<callerHolds, requests, pc, vres, rlog, hist, hdr>>

\* fail() that drops the request and returns nothing
Fail_silent(c) ==
    /\ pc[c] = "Pending"
    /\ HasRequest(c)
    /\ requests' = Consume(RequestOf(c))
    /\ pc' = [pc EXCEPT ![c] = "Rejected"]
    /\ last' = Call("fail", c, None, None)
    /\ UNCHANGED <<callerHolds, responses, vres, rlog, hist, hdr>>

\* request.fail()
Fail(c) ==
    /\ pc[c] = "Pending"
    /\ HasRequest(c)
    /\ LET r == RequestOf(c)
       IN  \E h \in ResponseHeaders(r) :
             LET response == fail(r, h)
             IN  /\ responses' = responses \cup {response}
                 /\ requests' = Consume(r)
                 /\ pc' = [pc EXCEPT ![c] = "Rejected"]
                 /\ last' = Call("fail", c, ResponseNew(r, h), response)
    /\ UNCHANGED <<callerHolds, vres, rlog, hist, hdr>>

\* Two connections handled side by side
Next ==
    \E c \in Conns :
        \/ Read(c, HandshakeHeaders)
        \/ Validate(c, FALSE)
        \/ SetVersion(c)
        \/ SetHeaders(c, HandshakeHeaders)
        \/ IntoInner(c)
        \/ AcceptValidate(c, FALSE)
        \/ AcceptDecide(c)
        \/ Fail(c)

Spec == Init /\ [][Next]_vars

\* One connection, every header collection
NextAll ==
    \/ Read("c1", Headers)
    \/ Validate("c1", FALSE)
    \/ SetVersion("c1")
    \/ SetHeaders("c1", Headers)
    \/ IntoInner("c1")
    \/ AcceptValidate("c1", FALSE)
    \/ AcceptDecide("c1")
    \/ Fail("c1")

SpecAll == Init /\ [][NextAll]_vars

\* One connection, with the accessors and with the validations tracked
NextOne ==
    \/ Read("c1", HandshakeHeaders)
    \/ Validate("c1", TRUE)
    \/ Access("c1")
    \/ SetVersion("c1")
    \/ SetHeaders("c1", HandshakeHeaders)
    \/ IntoInner("c1")
    \/ AcceptValidate("c1", TRUE)
    \/ AcceptDecide("c1")
    \/ Fail("c1")

SpecOne == Init /\ [][NextOne]_vars

-----------------------------------------------------------------------------
(* header::Origin (origin.rs) *)

\* The bytes raw header values are made of: line feed, space, 'f', and the
\* two bytes of the UTF-8 encoding of U+00E9
Bytes == {10, 32, 102, 195, 169}

\* Vec<u8> of at most n bytes
ByteStrings(n) == UNION {[1..k -> Bytes] : k \in 0..n}

RECURSIVE RawWithin(_, _)
\* The sequences of at most k occurrences that hold at most n bytes together
RawWithin(k, n) ==
    IF k = 0 THEN {<<>>}
    ELSE {<<>>} \cup UNION { {<<b>> \o rest : rest \in RawWithin(k - 1, n - Len(b))} :
                             b \in ByteStrings(n) }

\* raw: &[Vec<u8>], the occurrences of the header on the wire
RawHeaders == RawWithin(MaxOccurrences, MaxBytes)

\* str::from_utf8: the bytes are a string iff they are well-formed UTF-8
RECURSIVE ValidUtf8(_)
ValidUtf8(b) ==
    LET Cont(k) == Len(b) >= k /\ b[k] \in 128..191
        Rest(k) == SubSeq(b, k + 1, Len(b))
    IN  IF b = <<>> THEN TRUE
        ELSE IF b[1] < 128 THEN ValidUtf8(Rest(1))
        ELSE IF b[1] \in 194..223 THEN Cont(2) /\ ValidUtf8(Rest(2))
        ELSE IF b[1] \in 224..239
        THEN /\ Cont(2) /\ Cont(3)
             /\ (b[1] = 224 => b[2] >= 160)
             /\ (b[1] = 237 => b[2] <= 159)
             /\ ValidUtf8(Rest(3))
        ELSE IF b[1] \in 240..244
        THEN /\ Cont(2) /\ Cont(3) /\ Cont(4)
             /\ (b[1] = 240 => b[2] >= 144)
             /\ (b[1] = 244 => b[2] <= 143)
             /\ ValidUtf8(Rest(4))
        ELSE FALSE

\* The values of String within the bound
Strings == {b \in ByteStrings(MaxBytes) : ValidUtf8(b)}

\* hyper::header::parsing::from_one_raw_str::<String>
from_one_raw_str(raw) ==
    IF Len(raw) # 1 THEN None
    ELSE IF ~ValidUtf8(raw[1]) THEN None
    ELSE Some(raw[1])

\* pub struct Origin(pub String)
Origin(s) == <<s>>

\* Header::header_name: "Origin"
header_name == <<79, 114, 105, 103, 105, 110>>

\* parse_header that takes the first occurrence when there are several
parse_header_first_occurrence(raw) ==
    IF raw = <<>> \/ ~ValidUtf8(raw[1]) THEN None ELSE Some(Origin(raw[1]))

\* Header::parse_header
parse_header(raw) ==
    LET s == from_one_raw_str(raw)
    IN  IF s = None THEN None ELSE Some(Origin(s[1]))

RECURSIVE TrimEnd(_)
\* A string without its trailing spaces
TrimEnd(s) ==
    IF s # <<>> /\ s[Len(s)] = 32 THEN TrimEnd(SubSeq(s, 1, Len(s) - 1)) ELSE s

\* fmt_header that drops trailing spaces
fmt_header_trimmed(o) == TrimEnd(o[1])

\* fmt_header that writes the value as a quoted string
fmt_header_quoted(o) == <<34>> \o o[1] \o <<34>>

\* HeaderFormat::fmt_header: write!(fmt, "{}", value)
fmt_header(o) == LET value == o[1] IN value

\* Headers::to_string of a collection in which only the Origin o was set
HeadersToString(o) == header_name \o <<58, 32>> \o fmt_header(o) \o <<13, 10>>

\* A raw header arrives
InitOrigin ==
    /\ callerHolds = Conns
    /\ requests = {}
    /\ responses = {}
    /\ pc = [c \in Conns |-> "Idle"]
    /\ vres = [c \in Conns |-> NotRun]
    /\ rlog = [c \in Conns |-> NoLog]
    /\ last = Call("", "", None, None)
    /\ hist = [c \in Conns |-> NoHist]
    /\ hdr \in {[NoHdr EXCEPT !.stage = "raw", !.raw = raw] : raw \in RawHeaders}

\* Header::parse_header(raw)
ParseHeader ==
    /\ hdr.stage = "raw"
    /\ hdr' = [hdr EXCEPT !.stage = "parsed", !.via = "parse_header",
                          !.origin = parse_header(hdr.raw)]
    /\ UNCHANGED <<callerHolds, requests, responses, pc, vres, rlog, last, hist>>

\* Origin(s): the tuple struct built from a String
NewOrigin ==
    /\ hdr.stage = "raw"
    /\ \E s \in Strings :
         hdr' = [hdr EXCEPT !.stage = "parsed", !.via = "Origin", !.raw = <<>>,
                            !.origin = Some(Origin(s))]
    /\ UNCHANGED <<callerHolds, requests, responses, pc, vres, rlog, last, hist>>

\* HeaderFormatter(&origin) formatted with "{}"
FmtHeader ==
    /\ hdr.stage = "parsed"
    /\ hdr.origin # None
    /\ hdr' = [hdr EXCEPT !.stage = "formatted", !.out = fmt_header(hdr.origin[1])]
    /\ UNCHANGED <<callerHolds, requests, responses, pc, vres, rlog, last, hist>>

\* headers.set(origin); headers.to_string()
SetAndToString ==
    /\ hdr.stage = "parsed"
    /\ hdr.origin # None
    /\ hdr' = [hdr EXCEPT !.stage = "serialised",
                          !.out = HeadersToString(hdr.origin[1])]
    /\ UNCHANGED <<callerHolds, requests, responses, pc, vres, rlog, last, hist>>

\* The Origin header on its own: every raw header within the bounds is
\* parsed, or an Origin is built, and the value is formatted
NextOrigin ==
    \/ ParseHeader
    \/ NewOrigin
    \/ FmtHeader
    \/ SetAndToString

SpecOrigin == InitOrigin /\ [][NextOrigin]_vars

-----------------------------------------------------------------------------
(* Properties of validate() *)

\* The tokens of a Connection header, letters folded to lower case
FoldedTokens(connection) ==
    { [k \in 1..Len(connection[i].name) |->
          IF connection[i].name[k] \in 65..90
          THEN connection[i].name[k] + 32 ELSE connection[i].name[k]] :
      i \in {j \in 1..Len(connection) : connection[j].tag = "ConnectionHeader"} }

\* The five rules of the handshake, each stated on its own
RuleHolds(r, i) ==
    CASE i = 1 -> r.version \in {"Http11", "Http20"}
      [] i = 2 -> r.headers.wsversion = <<"WebSocket13">>
      [] i = 3 -> Len(r.headers.key) = 1
      [] i = 4 -> /\ Len(r.headers.upgrade) = 1
                  /\ \E i4 \in DOMAIN r.headers.upgrade[1] :
                        r.headers.upgrade[1][i4].tag = "WebSocket"
      [] i = 5 -> /\ Len(r.headers.connection) = 1
                  /\ StrUpgradeLower \in FoldedTokens(r.headers.connection[1])

Rules == 1..5

\* The messages that report a violation of rule i
RuleMessages(i) ==
    CASE i = 1 -> {"Unsupported request HTTP version"}
      [] i = 2 -> {"Unsupported WebSocket version"}
      [] i = 3 -> {"Missing Sec-WebSocket-Key header"}
      [] i = 4 -> {"Missing Upgrade WebSocket header", "Invalid Upgrade WebSocket header"}
      [] i = 5 -> {"Missing Connection WebSocket header",
                   "Invalid Connection WebSocket header"}

\* A validate() result v is right for request r
RightVerdict(r, v) ==
    /\ v = Ok <=> \A i \in Rules : RuleHolds(r, i)
    /\ v # Ok => v.kind = "RequestError"

\* C1: validate() returns success if and only if the HTTP version is neither
\* 0.9 nor 1.0, Sec-WebSocket-Version is present and 13, Sec-WebSocket-Key is
\* present, Upgrade is present and contains websocket, and Connection is
\* present and contains Upgrade; otherwise it returns a RequestError.  This
\* holds of a validate() the caller makes and of the one accept() makes.
C1_ValidateIffFiveRules ==
    /\ (last.op = "validate" /\ HasRequest(last.conn))
          => RightVerdict(RequestOf(last.conn), last.result)
    /\ \A c \in Conns :
          (pc[c] = "Validating" /\ HasRequest(c)) => RightVerdict(RequestOf(c), vres[c])

\* C1 witness: validate() has just succeeded on a request whose Connection
\* header is "keep-alive, UPGRADE", and (elsewhere) has just failed.
C1_Witness ==
    /\ last.op = "validate"
    /\ last.result = Ok
    /\ HasRequest(last.conn)
    /\ Len(RequestOf(last.conn).headers.connection[1]) = 2

\* The rules request r violates
Violated(r) == {i \in Rules : ~RuleHolds(r, i)}

\* A validate() error v on request r is the error of the earliest violated rule
EarliestError(r, v) ==
    v # Ok =>
        /\ Violated(r) # {}
        /\ \A i \in Violated(r) :
              (\A j \in Violated(r) : i <= j) <=> v.msg \in RuleMessages(i)

\* C2: validate() checks HTTP version, WebSocket version, key, Upgrade,
\* Connection in this order and stops at the first failure: the error returned
\* is the one of the earliest violated rule, never that of a later one.
C2_FirstViolatedRuleReported ==
    /\ (last.op = "validate" /\ HasRequest(last.conn))
          => EarliestError(RequestOf(last.conn), last.result)
    /\ \A c \in Conns :
          (pc[c] = "Validating" /\ HasRequest(c)) => EarliestError(RequestOf(c), vres[c])

\* C2 witness: validate() has just returned on a request that violates the
\* WebSocket version rule, the key rule and the Connection rule together.
C2_Witness ==
    /\ last.op = "validate"
    /\ HasRequest(last.conn)
    /\ Violated(RequestOf(last.conn)) = {2, 3, 5}
    /\ last.result = RequestError("Unsupported WebSocket version")

-----------------------------------------------------------------------------
(* Properties of read(), fail() and accept() *)

\* C3: read() on a request line whose method is not GET fails with
\* RequestError("Request method must be GET") without reading the header block
\* (so a malformed header block does not change the error) and creates no
\* Request; every existing Request came from a request line with method GET.
C3_MethodGate ==
    /\ \A c \in Conns :
          (rlog[c].line /\ rlog[c].method # "Get") =>
              /\ ~rlog[c].headersRead
              /\ ~HasRequest(c)
              /\ pc[c] = "Failed"
    /\ (last.op = "read" /\ rlog[last.conn].line /\ rlog[last.conn].method # "Get")
          => last.result = [kind |-> "RequestError", msg |-> "Request method must be GET"]
    /\ \A r \in requests : rlog[r.conn].line /\ rlog[r.conn].method = "Get"

\* C3 witness: read() has just returned on a POST request line that was
\* followed by a malformed header block.
C3_Witness ==
    /\ last.op = "read"
    /\ rlog[last.conn].line
    /\ rlog[last.conn].method = "Post"
    /\ ~rlog[last.conn].block

\* The response every rejection produces on connection c
BadRequestOn(c) == [conn |-> c, status |-> "BadRequest", headers |-> {}]

\* C4: fail() on any Request, whatever its headers and whatever the Response
\* constructor set, yields a Response with status 400 and an empty header
\* collection (bound to the request's connection).
C4_FailIs400Empty ==
    last.op = "fail" =>
        /\ last.result.status = "BadRequest"
        /\ last.result.headers = {}
        /\ last.result.conn = last.conn
        /\ last.result \in responses

\* C4 witness: fail() has just returned and the constructor had set all four
\* request-derived headers on the response.
C4_Witness ==
    /\ last.op = "fail"
    /\ last.arg.headers = HeaderNames

\* C5: accept() on a request that fails validate() yields the response fail()
\* yields (400, no headers); two requests rejected for different violated
\* rules get responses that agree in status and headers.
C5_UniformRejection ==
    /\ (last.op = "accept" /\ vres[last.conn] # Ok)
          => last.result = BadRequestOn(last.conn) /\ last.result \in responses
    /\ \A c, d \in Conns :
          (pc[c] = "Rejected" /\ pc[d] = "Rejected" /\ vres[c] # vres[d]) =>
              \A p, q \in responses :
                  (p.conn = c /\ q.conn = d) =>
                      p.status = q.status /\ p.headers = q.headers

\* C5 witness: accept() has rejected one request for its missing key and
\* another for its WebSocket version.
C5_Witness ==
    /\ pc["c1"] = "Rejected"
    /\ pc["c2"] = "Rejected"
    /\ vres["c1"] = RequestError("Missing Sec-WebSocket-Key header")
    /\ vres["c2"] = RequestError("Unsupported WebSocket version")
    /\ last.op = "accept"

\* C6: accept() on a request that passes validate() yields a Response that did
\* not go through the rejection path: its status is not 400 (it is pending) and
\* it is bound to the request's connection.
C6_AcceptValidNot400 ==
    /\ (last.op = "accept" /\ vres[last.conn] = Ok) =>
          /\ last.result.status # "BadRequest"
          /\ last.result.status = "Pending"
          /\ last.result.conn = last.conn
          /\ last.result \in responses
    /\ \A c \in Conns :
          pc[c] = "Accepted" =>
              \A p \in responses : p.conn = c => p.status # "BadRequest"

\* C6 witness: accept() has just returned on a request that passed validate().
C6_Witness ==
    /\ last.op = "accept"
    /\ vres[last.conn] = Ok
    /\ pc[last.conn] = "Accepted"

-----------------------------------------------------------------------------
(* Properties of the lifecycle *)

Terminal == {"Accepted", "Rejected"}

\* The responses bound to connection c
ResponsesOn(c) == {p \in responses : p.conn = c}

\* C7: the handshake moves forward through Pending -> Validating ->
\* Accepted | Rejected: an accept() that has validated can always finish and
\* finishes in exactly one of the two terminal states, with exactly one
\* response; Validating is entered from Pending only, and Accepted is entered
\* only from Validating, after validate() succeeded on that request.
C7_AcceptForward ==
    /\ [](\A c \in Conns :
            pc[c] = "Validating" => HasRequest(c) /\ ENABLED AcceptDecide(c))
    /\ [][\A c \in Conns :
            /\ pc[c] = "Validating" => pc'[c] \in {"Validating"} \cup Terminal
            /\ (pc'[c] = "Validating" /\ pc[c] # "Validating") => pc[c] = "Pending"
            /\ (pc'[c] = "Accepted" /\ pc[c] # "Accepted") =>
                  /\ pc[c] = "Validating"
                  /\ vres[c] = Ok
                  /\ \A i \in Rules : RuleHolds(RequestOf(c), i)
            /\ (pc[c] = "Validating" /\ pc'[c] # "Validating") =>
                  /\ pc'[c] = "Rejected" <=> vres[c] # Ok
                  /\ Cardinality(ResponsesOn(c)') = 1
                  /\ \A p \in ResponsesOn(c)' :
                        p.status = "BadRequest" <=> pc'[c] = "Rejected"
          ]_vars

\* C7 witness: one accept() has ended Accepted and another Rejected.
C7_Witness ==
    /\ pc["c1"] = "Accepted"
    /\ pc["c2"] = "Rejected"
    /\ vres["c2"] # NotRun
    /\ last.op = "accept"

\* C8: Accepted and Rejected are terminal: once accept() or fail() has been
\* called on a Request it no longer exists, no validate(), accept(), fail(),
\* into_inner() or read() applies to its connection, its one Response stays
\* the only one, and the handshake never leaves the terminal state.
C8_TerminalStates ==
    /\ [](\A c \in Conns :
            pc[c] \in Terminal =>
                /\ ~HasRequest(c)
                /\ Cardinality(ResponsesOn(c)) = 1
                /\ ~ENABLED (\/ Validate(c, FALSE) \/ AcceptValidate(c, FALSE) \/ AcceptDecide(c)
                             \/ Fail(c) \/ IntoInner(c) \/ SetVersion(c)
                             \/ SetHeaders(c, Headers) \/ Read(c, Headers)))
    /\ [][\A c \in Conns :
            /\ pc[c] \in Terminal =>
                  pc'[c] = pc[c] /\ ResponsesOn(c)' = ResponsesOn(c)
            /\ (last'.op \in {"accept", "fail"} /\ last'.conn = c /\ HasRequest(c)) =>
                  ~HasRequest(c)' /\ pc'[c] \in Terminal
          ]_vars

\* C8 witness: a connection is Rejected and the caller has gone on to
\* validate the request of the other connection.
C8_Witness ==
    /\ pc["c1"] = "Rejected"
    /\ last.op = "validate"
    /\ last.conn = "c2"

\* The number of owners of connection c's reader and writer
Owners(c) ==
    (IF c \in callerHolds THEN 1 ELSE 0)
    + Cardinality({r \in requests : r.conn = c})
    + Cardinality(ResponsesOn(c))

\* C9: at most one object owns a connection's reader and writer; a Request
\* and a Response bound to the same connection never exist together.
C9_SingleOwner ==
    \A c \in Conns :
        /\ Owners(c) <= 1
        /\ ~(HasRequest(c) /\ ResponsesOn(c) # {})

\* C9 witness: the connection of one request has moved into its Response
\* while the other connection is owned by a Request.
C9_Witness ==
    /\ ResponsesOn("c1") # {}
    /\ HasRequest("c2")
    /\ last.op \in {"accept", "fail"}

\* C10 as stated: every step that consumes a Request produces a Response
\* bound to its connection.
C10_EveryConsumptionResponds ==
    [][\A c \in Conns :
          (HasRequest(c) /\ ~HasRequest(c)') =>
              \E p \in responses' \ responses : p.conn = c
      ]_vars

\* C10 amended: a Request is consumed by accept(), fail() or into_inner() only,
\* and at most once.  accept() and fail() produce exactly one Response bound to
\* its connection (accepted, or a 400 failure) and no connection ever has two;
\* into_inner() produces no Response and hands the reader and writer back to
\* the caller.
C10_ConsumedByAcceptFailOrIntoInner ==
    /\ [](\A c \in Conns : Cardinality(ResponsesOn(c)) <= 1)
    /\ [][\A c \in Conns :
            (HasRequest(c) /\ ~HasRequest(c)') =>
                \/ /\ last'.op \in {"accept", "fail"}
                   /\ last'.conn = c
                   /\ Cardinality(responses' \ responses) = 1
                   /\ \A p \in responses' \ responses :
                         /\ p.conn = c
                         /\ p.status = "BadRequest" \/ pc'[c] = "Accepted"
                   /\ c \notin callerHolds'
                \/ /\ last'.op = "into_inner"
                   /\ last'.conn = c
                   /\ responses' = responses
                   /\ c \in callerHolds'
          ]_vars

\* C10 witness: into_inner() has just consumed a request while the request of
\* the other connection has ended as a Response.
C10_Witness ==
    /\ last.op = "into_inner"
    /\ responses # {}

-----------------------------------------------------------------------------
(* Properties of repeated validation and of the accessors *)

\* C11 as stated: over the lifetime of a Request the validation checks run at
\* most once.
C11_ValidatedAtMostOnce == \A c \in Conns : hist[c].runs <= 1

\* C11 amended: validate() borrows the Request and may run any number of times
\* while it exists, and accept() runs the checks once more.  What holds: each
\* accept() runs the checks exactly once, a Request that accept() works on or
\* has accepted was validated at least once, and once accept(), fail() or
\* into_inner() has taken the Request no validation runs on it.
C11_AcceptValidatesOnce ==
    /\ [](\A c \in Conns : pc[c] \in {"Validating", "Accepted"} => hist[c].runs >= 1)
    /\ [][\A c \in Conns :
            /\ (pc[c] = "Pending" /\ pc'[c] = "Validating") =>
                  hist'[c].runs = hist[c].runs + 1
            /\ pc[c] \in {"Validating", "Accepted", "Rejected", "Failed"} =>
                  hist'[c].runs = hist[c].runs
            /\ pc[c] = "Idle" => hist'[c].runs \in {hist[c].runs, 0}
          ]_vars

\* C11 witness: a request the caller validated twice has been accepted, which
\* validated it a third time.
C11_Witness ==
    /\ pc["c1"] = "Accepted"
    /\ hist["c1"].runs = 3
    /\ last.op = "accept"

\* The calls that only look at the request
PureOps == Accessors \cup {"validate"}

\* C12: validate() and the accessors key(), version(), protocol(),
\* extensions(), origin() are pure: a call of any of them leaves the request
\* (URI, HTTP version, headers), its reader and writer and everything else as
\* they were and reads nothing from the connection; a validate() on a request
\* that was not modified since the previous validate() returns the same result.
C12_PureCalls ==
    [][\A c \in Conns :
          (last'.op \in PureOps /\ last'.conn = c) =>
              /\ requests' = requests
              /\ responses' = responses
              /\ callerHolds' = callerHolds
              /\ rlog' = rlog
              /\ pc' = pc
              /\ (last'.op = "validate" /\ hist[c].seen # NotRun /\ ~hist[c].stale) =>
                    last'.result = hist[c].seen
      ]_vars

\* C12 witness: the second validate() on a request has just succeeded.
C12_Witness ==
    /\ last.op = "validate"
    /\ last.result = Ok
    /\ hist["c1"].runs = 2
    /\ ~hist["c1"].stale
    /\ origin(RequestOf("c1")) # None

-----------------------------------------------------------------------------
(* Properties of read() errors, letter case and error messages *)

\* C13: a failure to read the request line or the header block is returned to
\* the caller: read() returns a Request only if the request line and the
\* header block were both read and the method is GET, and returns the error
\* otherwise.
C13_ReadErrorsPropagate ==
    /\ \A r \in requests :
          /\ rlog[r.conn].line
          /\ rlog[r.conn].method = "Get"
          /\ rlog[r.conn].headersRead
          /\ rlog[r.conn].block
    /\ last.op = "read" =>
          LET g == rlog[last.conn]
              bad == ~g.line \/ (g.method = "Get" /\ ~g.block)
          IN  /\ bad => /\ last.result = [kind |-> "HttpError", msg |-> ""]
                        /\ pc[last.conn] = "Failed"
              /\ last.result.kind = "Ok" <=> HasRequest(last.conn)
              /\ last.result.kind = "Ok" <=> (g.line /\ g.method = "Get" /\ g.block)

\* C13 witness: read() has just returned on a GET request line that was
\* followed by a header block that could not be read.
C13_Witness ==
    /\ last.op = "read"
    /\ rlog[last.conn].line
    /\ rlog[last.conn].method = "Get"
    /\ ~rlog[last.conn].block

\* The spellings of a word in every mix of upper and lower case
Recasings(word) ==
    { [k \in 1..Len(word) |->
          IF word[k] \in 65..90 \cup 97..122
          THEN (IF k \in up THEN 65 ELSE 97) + ((word[k] - 65) % 32)
          ELSE word[k]] :
      up \in SUBSET (1..Len(word)) }

\* A word with its ASCII letters in lower case
LowerCase(word) ==
    [k \in 1..Len(word) |-> IF word[k] \in 65..90 THEN word[k] + 32 ELSE word[k]]

\* The requests that differ from r in the letter case of the Upgrade token of
\* the Connection header only
Recased(r) ==
    IF r.headers.connection = <<>> THEN {r}
    ELSE LET connection == r.headers.connection[1]
             spelt == {i \in 1..Len(connection) :
                          /\ connection[i].tag = "ConnectionHeader"
                          /\ LowerCase(connection[i].name) = LowerCase(StrUpgrade)}
         IN  { [r EXCEPT !.headers.connection =
                   << [i \in 1..Len(connection) |->
                          IF i \in spelt THEN [connection[i] EXCEPT !.name = t]
                          ELSE connection[i]] >>] :
               t \in Recasings(StrUpgrade) }

\* C14: the Connection check is case-insensitive: changing the letter case of
\* the Upgrade token of the Connection header changes neither the result of
\* validate() nor the status of the response accept() produces.
C14_ConnectionCaseInsensitive ==
    /\ (last.op = "validate" /\ HasRequest(last.conn)) =>
          \A q \in Recased(RequestOf(last.conn)) : validate(q) = last.result
    /\ \A c \in Conns :
          (pc[c] = "Validating" /\ HasRequest(c)) =>
              LET got == {accept(RequestOf(c), vres[c], h).status :
                            h \in ResponseHeaders(RequestOf(c))}
              IN  \A q \in Recased(RequestOf(c)) :
                      LET v == validate(q)
                      IN  {accept(q, v, h).status : h \in ResponseHeaders(q)} = got

\* C14 witness: validate() has just succeeded on "Connection: upgrade".
C14_Witness ==
    /\ last.op = "validate"
    /\ last.result = Ok
    /\ RequestOf(last.conn).headers.connection
          = <<<<[tag |-> "ConnectionHeader", name |-> StrUpgradeLower]>>>>

\* The condition of the handshake that request r fails first
Condition(r) ==
    IF Violated(r) = {} THEN "none"
    ELSE LET i == CHOOSE i \in Violated(r) : \A j \in Violated(r) : i <= j
         IN  CASE i = 1 -> "unsupported HTTP version"
               [] i = 2 -> "unsupported WebSocket version"
               [] i = 3 -> "missing key"
               [] i = 4 -> IF r.headers.upgrade = <<>> THEN "missing Upgrade"
                           ELSE "invalid Upgrade"
               [] i = 5 -> IF r.headers.connection = <<>> THEN "missing Connection"
                           ELSE "invalid Connection"

\* The (failing condition, error message) pairs that can be seen in a state:
\* from the read() or validate() that returned last and from every accept()
\* that holds the result of its validate()
Reported ==
    { <<Condition(RequestOf(c)), vres[c].msg>> :
        c \in {d \in Conns : pc[d] = "Validating" /\ vres[d].kind # "Ok"} }
    \cup (IF last.op = "validate" /\ last.result.kind # "Ok"
          THEN {<<Condition(RequestOf(last.conn)), last.result.msg>>} ELSE {})
    \cup (IF /\ last.op = "read"
             /\ rlog[last.conn].line
             /\ rlog[last.conn].method # "Get"
          THEN {<<"wrong method", last.result.msg>>} ELSE {})

\* C15: each failing condition has its own message: two errors reported for
\* different first failing conditions (wrong method, HTTP version, WebSocket
\* version, missing key, missing or invalid Upgrade, missing or invalid
\* Connection) carry different, non-empty messages.
C15_DistinctMessages ==
    \A a, b \in Reported :
        /\ a[1] # "none"
        /\ a[2] # ""
        /\ a[1] # b[1] => a[2] # b[2]

\* C15 witness: one accept() holds the error of a missing Upgrade header and
\* another the error of an invalid one.
C15_Witness ==
    /\ pc["c1"] = "Validating"
    /\ pc["c2"] = "Validating"
    /\ Condition(RequestOf("c1")) = "missing Upgrade"
    /\ Condition(RequestOf("c2")) = "invalid Upgrade"

-----------------------------------------------------------------------------
(* Properties of accept() after mutation and of a failed read() *)

\* C19: the decision of accept() reflects the Request as it is when accept()
\* is called: whatever validate() calls and field mutations came before,
\* accept() judges the current url, version and headers, the request does not
\* change between that judgement and the response, and the response is a 400
\* exactly when the current request violates a rule.
C19_AcceptJudgesCurrentRequest ==
    [][\A c \in Conns :
          /\ (pc[c] = "Pending" /\ pc'[c] = "Validating") =>
                /\ vres'[c].kind = "Ok" <=> Violated(RequestOf(c)) = {}
                /\ RequestOf(c)' = RequestOf(c)
          /\ (pc[c] = "Validating" /\ pc'[c] = "Validating") =>
                RequestOf(c)' = RequestOf(c) /\ vres'[c] = vres[c]
          /\ (pc[c] = "Validating" /\ pc'[c] # "Validating") =>
                /\ pc'[c] = "Accepted" <=> Violated(RequestOf(c)) = {}
                /\ \A p \in ResponsesOn(c)' :
                      p.status = "BadRequest" <=> Violated(RequestOf(c)) # {}
      ]_vars

\* C19 witness: validate() succeeded, the caller then changed the request,
\* and accept() has answered with a 400.
C19_Witness ==
    /\ pc["c1"] = "Rejected"
    /\ hist["c1"].seen = Ok
    /\ hist["c1"].stale
    /\ last.op = "accept"
    /\ last.result.status = "BadRequest"

\* C20: a read() that fails keeps the reader and the writer: no Request and
\* no Response exists for the connection, nothing owns it, no operation
\* applies to it and no response (in particular no 400) is ever produced on
\* it.
C20_FailedReadLeavesNothing ==
    /\ [](\A c \in Conns :
            pc[c] = "Failed" =>
                /\ Owners(c) = 0
                /\ ~HasRequest(c)
                /\ ResponsesOn(c) = {}
                /\ ~ENABLED (\/ Read(c, Headers) \/ Validate(c, FALSE)
                             \/ AcceptValidate(c, FALSE) \/ AcceptDecide(c)
                             \/ Fail(c) \/ IntoInner(c) \/ SetVersion(c)
                             \/ SetHeaders(c, Headers)))
    /\ []((last.op = "read" /\ last.result.kind # "Ok") => pc[last.conn] = "Failed")
    /\ [][\A c \in Conns :
            pc[c] = "Failed" => pc'[c] = "Failed" /\ ResponsesOn(c)' = {}
          ]_vars

\* C20 witness: read() failed on the header block of one connection while the
\* other connection went through to a Response.
C20_Witness ==
    /\ pc["c1"] = "Failed"
    /\ rlog["c1"].line
    /\ rlog["c1"].method = "Get"
    /\ ~rlog["c1"].block
    /\ ResponsesOn("c2") # {}

-----------------------------------------------------------------------------
(* Properties of header::Origin *)

\* C16: parsing an Origin header succeeds only when the raw header has
\* exactly one occurrence: with no occurrence and with two or more the result
\* is no value, and a value that is returned wraps the one occurrence.
C16_ExactlyOneOccurrence ==
    hdr.via = "parse_header" =>
        /\ Len(hdr.raw) # 1 => hdr.origin = <<>>
        /\ hdr.origin # <<>> => Len(hdr.raw) = 1 /\ hdr.origin = <<<<hdr.raw[1]>>>>

\* C16 witness: a raw header of two occurrences, each a non-empty string, was
\* parsed.
C16_Witness ==
    /\ hdr.via = "parse_header"
    /\ Len(hdr.raw) = 2
    /\ hdr.raw[1] = <<102>>
    /\ hdr.raw[2] = <<102, 102>>

\* The encodings of the characters that are not control characters
PlainChars == {<<32>>, <<102>>, <<195, 169>>}

RECURSIVE PlainUpTo(_)
\* The strings of at most n characters without control bytes
PlainUpTo(n) ==
    IF n = 0 THEN {<<>>}
    ELSE PlainUpTo(n - 1) \cup {s \o ch : s \in PlainUpTo(n - 1), ch \in PlainChars}

\* C17: for every string s without control bytes, parsing the raw header of
\* the single occurrence s succeeds and formatting the parsed Origin yields
\* exactly s, byte for byte.
C17_RoundTrip ==
    (/\ hdr.via = "parse_header"
     /\ Len(hdr.raw) = 1
     /\ hdr.raw[1] \in PlainUpTo(MaxBytes)) =>
        /\ hdr.origin # <<>>
        /\ hdr.stage = "formatted" => hdr.out = hdr.raw[1]

\* C17 witness: the parsed header of the single occurrence "f " (with a
\* trailing space) was formatted.
C17_Witness ==
    /\ hdr.via = "parse_header"
    /\ hdr.stage = "formatted"
    /\ hdr.raw = <<<<102, 32>>>>

\* C18: formatting writes the wrapped string verbatim, and a header
\* collection in which only Origin(s) was set serialises to "Origin: ",
\* then s, then CR LF.
C18_FormatVerbatim ==
    /\ hdr.stage = "formatted" => hdr.out = hdr.origin[1][1]
    /\ hdr.stage = "serialised" =>
          hdr.out = <<79, 114, 105, 103, 105, 110, 58, 32>> \o hdr.origin[1][1]
                        \o <<13, 10>>

\* C18 witness: the collection holding Origin("f f") was serialised.
C18_Witness ==
    /\ hdr.stage = "serialised"
    /\ hdr.via = "Origin"
    /\ hdr.origin = <<<<<<102, 32, 102>>>>>>

====
